---------------------------- MODULE Spec2Model ----------------------------
(***************************************************************************)
(* ZotSearch: the external-memory inverted-index builder (main.py), the    *)
(* index sharder (split_index.py) and the query evaluator (search.py)      *)
(* behind the /search route (app.py).                                      *)
(*                                                                         *)
(* A Python string is a sequence of character codes (ord values), so that  *)
(* string comparison, custom_hash and token[0] are computed as the code    *)
(* computes them.  A Python dict is a function, a list a sequence, a set a *)
(* set.  The InvertedIndex instance is the record `self`.                  *)
(***************************************************************************)
EXTENDS Integers, Sequences, FiniteSets, TLC

(***************************************************************************)
(* Bounds of the model.                                                    *)
(***************************************************************************)
\* Number of corpus files the main loop of main.py walks over.
MaxDocs == 3

(***************************************************************************)
(* Strings.                                                                *)
(***************************************************************************)
ord_a == 97
ord_z == 122
ord_space == 32

s_a == <<97>>
s_b == <<98>>
s_ab == <<97, 98>>
s_1 == <<49>>
s_other == <<111, 116, 104, 101, 114>>
s_None == <<78, 111, 110, 101>>

\* Python's str < str: lexicographic on code points, a proper prefix first.
RECURSIVE StrLess(_, _)
StrLess(s, t) ==
    IF t = <<>> THEN FALSE
    ELSE IF s = <<>> THEN TRUE
    ELSE IF Head(s) /= Head(t) THEN Head(s) < Head(t)
    ELSE StrLess(Tail(s), Tail(t))

\* ' '.join(tokens[i:i + 3]) of is_duplicate.
JoinTrigram(tokens, i) ==
    tokens[i] \o <<ord_space>> \o tokens[i + 1] \o <<ord_space>> \o tokens[i + 2]

(***************************************************************************)
(* custom_hash: polynomial rolling hash, p = 31, m = 10^9 + 7.  Python     *)
(* integers are unbounded and % yields a result in 0..m-1 also for the     *)
(* negative contributions of characters below 'a'; the products are        *)
(* formed here by doubling so that no intermediate value exceeds 2 m.      *)
(***************************************************************************)
hash_p == 31
hash_m == 1000000007

\* (a * k) % hash_m for 0 <= a < hash_m and k >= 0.
RECURSIVE MulMod(_, _)
MulMod(a, k) ==
    IF k = 0 THEN 0
    ELSE LET half == MulMod(a, k \div 2)
             dbl == (half + half) % hash_m
         IN IF k % 2 = 1 THEN (dbl + a) % hash_m ELSE dbl

\* (c * pPow) % hash_m with Python's sign convention, c possibly negative.
SignedMulMod(c, pPow) ==
    IF c >= 0 THEN MulMod(pPow, c)
    ELSE (hash_m - MulMod(pPow, -c)) % hash_m

RECURSIVE HashFrom(_, _, _, _)
HashFrom(s, i, hashVal, pPow) ==
    IF i > Len(s) THEN hashVal
    ELSE HashFrom(s, i + 1,
                  (hashVal + SignedMulMod(s[i] - ord_a + 1, pPow)) % hash_m,
                  MulMod(pPow, hash_p))

custom_hash(s) == HashFrom(s, 1, 0, 1)

(***************************************************************************)
(* The corpus.  A corpus file is a JSON object {url, content, encoding}.   *)
(* `readable` is whether open/json.load/the three key lookups of get_info  *)
(* succeed.  A url is its page and its fragment; `wellformed` is whether   *)
(* urldefrag accepts it (it raises on a non-string JSON value and on an    *)
(* unbalanced bracket in the netloc).  A content is the HTML payload as BeautifulSoup and    *)
(* tokenize see it: `parses` is whether BeautifulSoup(content) returns,    *)
(* `text` the token stream of soup.get_text(), and title/header/strong/    *)
(* body the token sets of the four regions of get_token_fields.            *)
(***************************************************************************)
Rep(tok, n) == [i \in 1..n |-> tok]
Cycle2(x, y, n) == [i \in 1..n |-> IF i % 2 = 1 THEN x ELSE y]
Cycle3(x, y, z, n) == [i \in 1..n |-> IF i % 3 = 1 THEN x ELSE IF i % 3 = 2 THEN y ELSE z]

Url(page, frag) == [page |-> page, frag |-> frag, wellformed |-> TRUE]
EmptyUrl == [page |-> "", frag |-> "", wellformed |-> TRUE]
BadUrl == [page |-> "u9", frag |-> "", wellformed |-> FALSE]

Html(text, title, header, strong, body) ==
    [empty |-> FALSE, parses |-> TRUE, text |-> text, title |-> title,
     header |-> header, strong |-> strong, body |-> body]
EmptyContent ==
    [empty |-> TRUE, parses |-> TRUE, text |-> <<>>, title |-> {},
     header |-> {}, strong |-> {}, body |-> {}]
NotHtml ==
    [empty |-> FALSE, parses |-> FALSE, text |-> <<>>, title |-> {},
     header |-> {}, strong |-> {}, body |-> {}]

File(url, content) == [readable |-> TRUE, url |-> url, content |-> content]

\* "a b a b a b a b a b": one of its two trigram hashes is divisible by 4.
text_ab == Cycle2(s_a, s_b, 10)
\* "a a a a a a a a a a": its only trigram hash is 2 mod 4.
text_aa == Rep(s_a, 10)
\* "a b b a b b a b b a": all three trigram hashes are divisible by 4.
text_abb == Cycle3(s_a, s_b, s_b, 10)

f_ab == File(Url("u1", "top"), Html(text_ab, {s_a}, {}, {}, {s_a, s_b}))
f_aa == File(Url("u3", ""), Html(text_aa, {}, {}, {}, {s_a}))
f_abb == File(Url("u4", ""), Html(text_abb, {}, {s_b}, {s_a}, {s_a, s_b}))
f_short == File(Url("u1", "x"), Html(<<s_ab, s_1, s_ab>>, {s_ab}, {s_ab}, {}, {s_1}))
f_unreadable == [readable |-> FALSE, url |-> EmptyUrl, content |-> EmptyContent]
f_not_html == File(Url("u6", ""), NotHtml)
f_bad_url == File(BadUrl, Html(text_ab, {}, {}, {}, {s_a, s_b}))

Corpus == {f_ab, f_aa, f_abb, f_short, f_unreadable, f_not_html, f_bad_url}

Vocabulary == {s_a, s_b, s_ab, s_1}

(***************************************************************************)
(* InvertedIndex (main.py).                                                *)
(***************************************************************************)
THRESHOLD_SIZE == 20000000
min_token_count == 10
\* similarity_treshold = 0.85, in hundredths.
similarity_treshold == 85

EmptyDict == [k \in {} |-> <<>>]

\* InvertedIndex.__init__
InvertedIndex ==
    [DOC_ID_COUNT |-> 1,
     DOC_ID |-> EmptyDict,
     partial_index |-> EmptyDict,
     partial_index_file_count |-> 0,
     near_duplicate |-> {}]

Range(seq) == {seq[i] : i \in DOMAIN seq}

\* token_frequency: token -> number of occurrences in the list.
token_frequency(tokens) ==
    [t \in Range(tokens) |-> Cardinality({i \in DOMAIN tokens : tokens[i] = t})]

\* get_info: (url, content) of the file, ("", "") when it cannot be read.
get_info(file) ==
    IF file.readable
    THEN [url |-> file.url, content |-> file.content]
    ELSE [url |-> EmptyUrl, content |-> EmptyContent]

\* get_token_fields: per token, the list of the regions that contain it.
get_token_fields(content, tokens) ==
    [t \in tokens |->
        (IF t \in content.title THEN <<"title">> ELSE <<>>)
        \o (IF t \in content.header THEN <<"header">> ELSE <<>>)
        \o (IF t \in content.strong THEN <<"strong">> ELSE <<>>)
        \o (IF t \in content.body THEN <<"body">> ELSE <<>>)]

\* urldefrag(url)[0]
urldefrag(url) == url.page

\* url_to_docid returning the counter after its increment.
url_to_docid_off_by_one(self, url) ==
    [docid |-> self.DOC_ID_COUNT + 1,
     self |-> [self EXCEPT
        !.DOC_ID = [d \in DOMAIN self.DOC_ID \cup {self.DOC_ID_COUNT} |->
                        IF d = self.DOC_ID_COUNT THEN urldefrag(url)
                        ELSE self.DOC_ID[d]],
        !.DOC_ID_COUNT = self.DOC_ID_COUNT + 1]]

\* url_to_docid incrementing the counter before and after the assignment.
url_to_docid_skips(self, url) ==
    [docid |-> self.DOC_ID_COUNT + 1,
     self |-> [self EXCEPT
        !.DOC_ID = [d \in DOMAIN self.DOC_ID \cup {self.DOC_ID_COUNT + 1} |->
                        IF d = self.DOC_ID_COUNT + 1 THEN urldefrag(url)
                        ELSE self.DOC_ID[d]],
        !.DOC_ID_COUNT = self.DOC_ID_COUNT + 2]]

\* url_to_docid: the docid, and the instance after the call.
url_to_docid(self, url) ==
    [docid |-> self.DOC_ID_COUNT,
     self |-> [self EXCEPT
        !.DOC_ID = [d \in DOMAIN self.DOC_ID \cup {self.DOC_ID_COUNT} |->
                        IF d = self.DOC_ID_COUNT THEN urldefrag(url)
                        ELSE self.DOC_ID[d]],
        !.DOC_ID_COUNT = self.DOC_ID_COUNT + 1]]

\* The sampled fingerprint of is_duplicate: the trigram hashes with h % 4 == 0.
selected_hashes(tokens) ==
    LET trigram_hashes ==
            {custom_hash(JoinTrigram(tokens, i)) : i \in 1..(Len(tokens) - 2)}
    IN {h \in trigram_hashes : h % 4 = 0}

\* selected_hashes on the token streams of the corpus, evaluated once.
CorpusFingerprints ==
    [text \in {f.content.text : f \in Corpus} |-> selected_hashes(text)]

Fingerprint(tokens) ==
    IF tokens \in DOMAIN CorpusFingerprints
    THEN CorpusFingerprints[tokens]
    ELSE selected_hashes(tokens)

\* similarity_score >= similarity_treshold; an empty union scores 0.0.
Similar(selected, fingerprint) ==
    LET intersection == selected \cap fingerprint
        union == selected \cup fingerprint
    IN IF union /= {}
       THEN 100 * Cardinality(intersection) >= similarity_treshold * Cardinality(union)
       ELSE FALSE

\* is_duplicate recording the fingerprint of a short document too.
is_duplicate_records_short(self, tokens) ==
    LET selected == Fingerprint(tokens)
    IN IF Len(tokens) >= min_token_count
          /\ \E fingerprint \in self.near_duplicate : Similar(selected, fingerprint)
       THEN [result |-> TRUE, near_duplicate |-> self.near_duplicate]
       ELSE [result |-> FALSE,
             near_duplicate |-> self.near_duplicate \cup {selected}]

\* is_duplicate: the result, and near_duplicate after the call.
is_duplicate(self, tokens) ==
    IF Len(tokens) < min_token_count
    THEN [result |-> FALSE, near_duplicate |-> self.near_duplicate]
    ELSE LET selected == Fingerprint(tokens)
         IN IF \E fingerprint \in self.near_duplicate : Similar(selected, fingerprint)
            THEN [result |-> TRUE, near_duplicate |-> self.near_duplicate]
            ELSE [result |-> FALSE,
                  near_duplicate |-> self.near_duplicate \cup {selected}]

Posting(docid, tf, fields) == [docid |-> docid, tf |-> tf, fields |-> fields]

\* The loop of process_document over tf.items().
AppendPostings(partial_index, docid, tf, fields) ==
    [t \in DOMAIN partial_index \cup DOMAIN tf |->
        IF t \in DOMAIN tf
        THEN IF t \in DOMAIN partial_index
             THEN Append(partial_index[t], Posting(docid, tf[t], fields[t]))
             ELSE <<Posting(docid, tf[t], fields[t])>>
        ELSE partial_index[t]]

\* process_document assigning the docid before the duplicate check.
process_document_docid_first(self, file) ==
    LET info == get_info(file)
        tokens == info.content.text
        assigned == url_to_docid(self, info.url)
        dup == is_duplicate(assigned.self, tokens)
        checked == [assigned.self EXCEPT !.near_duplicate = dup.near_duplicate]
    IN IF info.url.page = "" \/ info.content.empty
       THEN [self |-> self, outcome |-> "no_content"]
       ELSE IF ~info.content.parses \/ ~info.url.wellformed
       THEN [self |-> self, outcome |-> "error"]
       ELSE IF dup.result
       THEN [self |-> checked, outcome |-> "duplicate"]
       ELSE [self |-> [checked EXCEPT !.partial_index =
                         AppendPostings(checked.partial_index, assigned.docid,
                                        token_frequency(tokens),
                                        get_token_fields(info.content, Range(tokens)))],
             outcome |-> "indexed"]

(***************************************************************************)
(* process_document: the instance after the call and the way the call      *)
(* ended: "no_content" (the return of line 252), "error" (the except of    *)
(* line 276: BeautifulSoup raised at line 255, or urldefrag at line 178,   *)
(* after is_duplicate recorded the fingerprint and before DOC_ID is        *)
(* written), "duplicate" (the return of line 262) or "indexed".            *)
(***************************************************************************)
process_document(self, file) ==
    LET info == get_info(file)
        tokens == info.content.text
        dup == is_duplicate(self, tokens)
        checked == [self EXCEPT !.near_duplicate = dup.near_duplicate]
        assigned == url_to_docid(checked, info.url)
    IN IF info.url.page = "" \/ info.content.empty
       THEN [self |-> self, outcome |-> "no_content"]
       ELSE IF ~info.content.parses
       THEN [self |-> self, outcome |-> "error"]
       ELSE IF dup.result
       THEN [self |-> checked, outcome |-> "duplicate"]
       ELSE IF ~info.url.wellformed
       THEN [self |-> checked, outcome |-> "error"]
       ELSE [self |-> [assigned.self EXCEPT !.partial_index =
                         AppendPostings(checked.partial_index, assigned.docid,
                                        token_frequency(tokens),
                                        get_token_fields(info.content, Range(tokens)))],
             outcome |-> "indexed"]

(***************************************************************************)
(* dump_partial_index.  A partial-index file is the sequence of its lines, *)
(* each line {token: postings} the record [token, postings].               *)
(***************************************************************************)
RECURSIVE SortStrings(_)
SortStrings(S) ==
    IF S = {} THEN <<>>
    ELSE LET least == CHOOSE x \in S : \A y \in S : y = x \/ StrLess(x, y)
         IN <<least>> \o SortStrings(S \ {least})

\* The strings in descending order.
RECURSIVE SortStringsDescending(_)
SortStringsDescending(S) ==
    IF S = {} THEN <<>>
    ELSE LET least == CHOOSE x \in S : \A y \in S : y = x \/ StrLess(x, y)
         IN SortStringsDescending(S \ {least}) \o <<least>>

\* The items of the partial index without the ascending sort.
serializable_data_unsorted(partial_index) ==
    LET order == SortStringsDescending(DOMAIN partial_index)
    IN [i \in DOMAIN order |-> [token |-> order[i], postings |-> partial_index[order[i]]]]

\* sorted(self.partial_index.items()), one line per item.
serializable_data(partial_index) ==
    LET order == SortStrings(DOMAIN partial_index)
    IN [i \in DOMAIN order |-> [token |-> order[i], postings |-> partial_index[order[i]]]]

\* dump_partial_index without self.partial_index.clear().
dump_partial_index_keeps_index(self) ==
    [file_name |-> self.partial_index_file_count,
     lines |-> serializable_data(self.partial_index),
     self |-> [self EXCEPT
        !.partial_index_file_count = self.partial_index_file_count + 1,
        !.near_duplicate = {}]]

\* dump_partial_index: the file written (its number and lines), and the
\* instance after the call.
dump_partial_index(self) ==
    [file_name |-> self.partial_index_file_count,
     lines |-> serializable_data(self.partial_index),
     self |-> [self EXCEPT
        !.partial_index_file_count = self.partial_index_file_count + 1,
        !.partial_index = EmptyDict,
        !.near_duplicate = {}]]

\* The files of PARTIAL_INDEX_DIR after file `written.file_name` is written.
WriteFile(dir, written) ==
    [n \in DOMAIN dir \cup {written.file_name} |->
        IF n = written.file_name THEN written.lines ELSE dir[n]]

(***************************************************************************)
(* merge_partial_indexes.                                                  *)
(***************************************************************************)
RECURSIVE SortInts(_)
SortInts(S) ==
    IF S = {} THEN <<>>
    ELSE LET least == CHOOSE x \in S : \A y \in S : x <= y
         IN <<least>> \o SortInts(S \ {least})

\* list(set(fields)): the elements once each.  The order Python gives them
\* depends on the string hash seed; no run reaches this (a docid occurs once
\* per token over all partial files: DocidInOnePartialFile below), and one
\* order is taken.
RECURSIVE ListOfSet(_)
ListOfSet(S) ==
    IF S = {} THEN <<>>
    ELSE LET x == CHOOSE y \in S : TRUE IN <<x>> \o ListOfSet(S \ {x})

\* The loop over `postings` of lines 389-395 and 398-404.
RECURSIVE MergePostings(_, _, _)
MergePostings(posting_map, postings, i) ==
    IF i > Len(postings) THEN posting_map
    ELSE LET posting == postings[i]
             docid == posting.docid
         IN MergePostings(
                [d \in DOMAIN posting_map \cup {docid} |->
                    IF d /= docid THEN posting_map[d]
                    ELSE IF docid \in DOMAIN posting_map
                    THEN [tf |-> posting_map[docid].tf + posting.tf,
                          fields |-> ListOfSet(Range(posting_map[docid].fields
                                                     \o posting.fields))]
                    ELSE [tf |-> posting.tf, fields |-> posting.fields]],
                postings, i + 1)

\* The line written for current_token: its postings sorted by docid.
MergedLine(current_token, posting_map) ==
    LET order == SortInts(DOMAIN posting_map)
    IN [token |-> current_token,
        postings |-> [i \in DOMAIN order |->
                        [docid |-> order[i], tf |-> posting_map[order[i]].tf,
                         fields |-> posting_map[order[i]].fields]]]

\* heapq order of the entries (key, i, postings): by key, then by file index.
HeapLess(e1, e2) ==
    \/ StrLess(e1.token, e2.token)
    \/ e1.token = e2.token /\ e1.file_idx < e2.file_idx

\* A refill that reads no further line of the file.
ReadNextNoRefill(files, i, read) ==
    IF read = 0 /\ read < Len(files[i])
    THEN {[token |-> files[i][1].token, file_idx |-> i,
           postings |-> files[i][1].postings]}
    ELSE {}

\* read_next(files[i]) after `read` lines were read: the entry pushed, if any.
ReadNext(files, i, read) ==
    IF read < Len(files[i])
    THEN {[token |-> files[i][read + 1].token, file_idx |-> i,
           postings |-> files[i][read + 1].postings]}
    ELSE {}

\* The while loop of merge_partial_indexes and the write of the last token.
\* current is [none, token]: `none` stands for current_token is None.
RECURSIVE MergeLoop(_, _, _, _, _, _)
MergeLoop(files, heap, read, current, posting_map, out) ==
    IF heap = {}
    THEN IF current.none THEN out
         ELSE Append(out, MergedLine(current.token, posting_map))
    ELSE LET top == CHOOSE e \in heap : \A o \in heap : o = e \/ HeapLess(e, o)
             changed == current.none \/ top.token /= current.token
             flushed == IF changed /\ ~current.none
                        THEN Append(out, MergedLine(current.token, posting_map))
                        ELSE out
             merged == MergePostings(IF changed THEN EmptyDict ELSE posting_map,
                                     top.postings, 1)
             i == top.file_idx
         IN MergeLoop(files,
                      (heap \ {top}) \cup ReadNext(files, i, read[i]),
                      [read EXCEPT ![i] = read[i] + 1],
                      [none |-> FALSE, token |-> top.token],
                      merged, flushed)

\* save_doc_id_mapping: one record per docid, sorted by docid.
save_doc_id_mapping(self) ==
    LET order == SortInts(DOMAIN self.DOC_ID)
    IN [i \in DOMAIN order |-> [docid |-> order[i], url |-> self.DOC_ID[order[i]]]]

\* merge_partial_indexes: the final index file and the doc-id file written.
merge_partial_indexes(self, dir) ==
    LET files == [i \in 0..(self.partial_index_file_count - 1) |-> dir[i]]
        heap == UNION {ReadNext(files, i, 0) : i \in DOMAIN files}
        read == [i \in DOMAIN files |-> 1]
    IN [final_index |-> MergeLoop(files, heap, read, [none |-> TRUE, token |-> <<>>],
                                  EmptyDict, <<>>),
        doc_id_file |-> save_doc_id_mapping(self)]

(***************************************************************************)
(* split_index.py.                                                         *)
(***************************************************************************)
\* str.lower() on one character.
Lower(c) == IF c >= 65 /\ c <= 90 THEN c + 32 ELSE c

\* initialize_total_documents: the number of lines of the doc-id file.
initialize_total_documents(input_file) == Len(input_file)

\* get_term_range: token[0].lower(), a one-character string.
get_term_range(token) == <<Lower(token[1])>>

\* field_boost of calculate_tfidf in hundredths: 2, 1.5 and 1.3 multiply.
field_boost(fields) ==
    LET title == IF "title" \in Range(fields) THEN 100 * 2 ELSE 100
        header == IF "header" \in Range(fields) THEN (title * 3) \div 2 ELSE title
    IN IF "strong" \in Range(fields) THEN (header * 13) \div 10 ELSE header

\* calculate_tfidf: (1 + log(tf)) * log(N / (1 + df)) * field_boost, kept as
\* the exact arguments of the two logarithms and the boost.
calculate_tfidf(tf, df, fields, N) ==
    [log_tf |-> tf, idf_num |-> N, idf_den |-> 1 + df, boost |-> field_boost(fields)]

\* Lines 74-80: the record of one line with tfidf set on each posting.
ScoredLine(data, N) ==
    LET df == Len(data.postings)
    IN [token |-> data.token,
        postings |-> [i \in DOMAIN data.postings |->
            [docid |-> data.postings[i].docid,
             tf |-> data.postings[i].tf,
             fields |-> data.postings[i].fields,
             tfidf |-> calculate_tfidf(data.postings[i].tf, df,
                                       data.postings[i].fields, N)]]]

\* The file name stem f"{current_id}": "None" while current_id is None.
IdName(current) == IF current.none THEN s_None ELSE current.id

\* The loop of split_index without the reset of current_postings.
RECURSIVE SplitLoopKeepsPostings(_, _, _, _, _, _)
SplitLoopKeepsPostings(lines, i, N, current, current_postings, writes) ==
    IF i > Len(lines)
    THEN Append(writes, [name |-> IdName(current), lines |-> current_postings])
    ELSE LET data == ScoredLine(lines[i], N)
             range_id == get_term_range(data.token)
             changed == current.none \/ range_id /= current.id
         IN SplitLoopKeepsPostings(lines, i + 1, N,
                [none |-> FALSE, id |-> range_id],
                Append(current_postings, data),
                IF changed /\ ~current.none
                THEN Append(writes, [name |-> current.id, lines |-> current_postings])
                ELSE writes)

\* The loop of split_index over the lines of the input file and the dump of
\* the leftover: the sequence of the files written, each [name, lines].
RECURSIVE SplitLoop(_, _, _, _, _, _)
SplitLoop(lines, i, N, current, current_postings, writes) ==
    IF i > Len(lines)
    THEN Append(writes, [name |-> IdName(current), lines |-> current_postings])
    ELSE LET data == ScoredLine(lines[i], N)
             range_id == get_term_range(data.token)
             changed == current.none \/ range_id /= current.id
         IN SplitLoop(lines, i + 1, N,
                [none |-> FALSE, id |-> range_id],
                Append(IF changed THEN <<>> ELSE current_postings, data),
                IF changed /\ ~current.none
                THEN Append(writes, [name |-> current.id, lines |-> current_postings])
                ELSE writes)

split_index(input_file, N) ==
    SplitLoop(input_file, 1, N, [none |-> TRUE, id |-> <<>>], <<>>, <<>>)

\* The directory DEV_index after the writes, a later write of a name
\* replacing an earlier one (open(output_file, 'w')).
RECURSIVE WriteAll(_, _, _)
WriteAll(dir, writes, i) ==
    IF i > Len(writes) THEN dir
    ELSE WriteAll([n \in DOMAIN dir \cup {writes[i].name} |->
                      IF n = writes[i].name THEN writes[i].lines ELSE dir[n]],
                  writes, i + 1)

(***************************************************************************)
(* Search (search.py): construction and the shard lookup.                  *)
(***************************************************************************)
\* _load_doc_id_map
load_doc_id_map(doc_id_lines) ==
    [d \in {doc_id_lines[i].docid : i \in DOMAIN doc_id_lines} |->
        LET last == CHOOSE i \in DOMAIN doc_id_lines :
                        /\ doc_id_lines[i].docid = d
                        /\ \A j \in DOMAIN doc_id_lines :
                              doc_id_lines[j].docid = d => j <= i
        IN doc_id_lines[last].url]

\* Search.__init__: every file <letter>.jsonl of the directory is an index file.
SearchInstance(dir, doc_id_lines) ==
    [doc_id_map |-> load_doc_id_map(doc_id_lines),
     total_docs |-> Cardinality({doc_id_lines[i].docid : i \in DOMAIN doc_id_lines}),
     index_files |-> DOMAIN dir]

\* str.isalpha() on one (ASCII) character.
IsAlpha(c) == (c >= ord_a /\ c <= ord_z) \/ (c >= 65 /\ c <= 90)

\* _get_index_file_for_token: [none, name], none standing for None.
get_index_file_for_token(search, token) ==
    IF token = <<>> THEN [none |-> TRUE, name |-> <<>>]
    ELSE LET first_char == Lower(token[1])
             key == IF IsAlpha(first_char) THEN <<first_char>> ELSE s_other
         IN IF key \in search.index_files
            THEN [none |-> FALSE, name |-> key]
            ELSE [none |-> TRUE, name |-> <<>>]

\* A line of a shard that json.loads rejects.
CorruptLine == [corrupt |-> TRUE]
IsCorrupt(line) == "corrupt" \in DOMAIN line

\* The binary search of _get_token_postings over lines[left..right]
\* (0-based as in the code): whether json.loads raised on the line at mid,
\* and the postings with tfidf, [] when the token is not found.
RECURSIVE BinarySearch(_, _, _, _)
BinarySearch(lines, token, left, right) ==
    IF left > right THEN [raised |-> FALSE, postings |-> <<>>]
    ELSE LET mid == left + ((right - left) \div 2)
             data == lines[mid + 1]
         IN IF IsCorrupt(data) THEN [raised |-> TRUE, postings |-> <<>>]
            ELSE IF data.token = token
            THEN [raised |-> FALSE, postings |-> data.postings]
            ELSE IF StrLess(data.token, token)
            THEN BinarySearch(lines, token, mid + 1, right)
            ELSE BinarySearch(lines, token, left, mid - 1)

\* _get_token_postings: the except of line 127 prints and falls through to
\* the return [] of line 130.
get_token_postings(search, dir, token) ==
    IF token = <<>> THEN <<>>
    ELSE LET index_file == get_index_file_for_token(search, token)
         IN IF index_file.none THEN <<>>
            ELSE LET found == BinarySearch(dir[index_file.name], token, 0,
                                           Len(dir[index_file.name]) - 1)
                 IN IF found.raised THEN <<>> ELSE found.postings

(***************************************************************************)
(* The tokenizers: InvertedIndex.tokenize (main.py) and                    *)
(* Search.tokenize_query (search.py), on strings as character sequences.   *)
(***************************************************************************)
s_s == <<115>>
s_as == <<97, 115>>
s_abs == <<97, 98, 115>>
s_bb == <<98, 98>>
s_sses == <<115, 115, 101, 115>>
s_ies == <<105, 101, 115>>
s_ss == <<115, 115>>

\* str.lower()
LowerStr(str) == [i \in DOMAIN str |-> Lower(str[i])]

\* The maximal runs of characters of `chars` in str[i..], left to right,
\* `cur` being the run under way and `out` the runs completed.
RECURSIVE Runs(_, _, _, _, _)
Runs(chars, str, i, cur, out) ==
    IF i > Len(str) THEN (IF cur = <<>> THEN out ELSE Append(out, cur))
    ELSE IF str[i] \in chars
    THEN Runs(chars, str, i + 1, Append(cur, str[i]), out)
    ELSE Runs(chars, str, i + 1, <<>>, IF cur = <<>> THEN out ELSE Append(out, cur))

\* The ASCII characters str.split() splits on.
Whitespace == {9, 10, 11, 12, 13, 28, 29, 30, 31, 32}
\* str.split(): the maximal runs of non-whitespace characters.
str_split(str) == Runs((0..127) \ Whitespace, str, 1, <<>>, <<>>)

\* re.findall(r'[a-z0-9]+', str)
re_findall(str) == Runs((ord_a..ord_z) \cup (48..57), str, 1, <<>>, <<>>)

\* str.isdigit() on ASCII.
isdigit(token) == token /= <<>> /\ \A i \in DOMAIN token : token[i] \in 48..57

EndsWith(word, suffix) ==
    /\ Len(word) >= Len(suffix)
    /\ SubSeq(word, Len(word) - Len(suffix) + 1, Len(word)) = suffix
DropLast(word, n) == SubSeq(word, 1, Len(word) - n)

(***************************************************************************)
(* PorterStemmer.stem (nltk): the word is lowercased, a word of one or two *)
(* characters is returned as it is, and step 1a rewrites the first suffix  *)
(* that matches of sses -> ss, ies -> i, ss -> ss, s -> "".  The suffixes  *)
(* of steps 1b to 5 and the irregular forms all hold a letter other than   *)
(* a, b and s, so that on the words of the model step 1a is the stemmer.   *)
(***************************************************************************)
stem(word) ==
    LET w == LowerStr(word)
    IN IF Len(w) <= 2 THEN w
       ELSE IF EndsWith(w, s_sses) THEN DropLast(w, 2)
       ELSE IF EndsWith(w, s_ies) THEN DropLast(w, 2)
       ELSE IF EndsWith(w, s_ss) THEN w
       ELSE IF EndsWith(w, s_s) THEN DropLast(w, 1)
       ELSE w

\* The members of STOP_WORDS that are spelled with the letters a, b and s.
STOP_WORDS == {s_a, s_as}

\* InvertedIndex.tokenize
tokenize(content) ==
    LET tokens == re_findall(LowerStr(content))
    IN [i \in DOMAIN tokens |->
           IF isdigit(tokens[i]) THEN tokens[i] ELSE stem(tokens[i])]

\* The orders in which a set can be iterated.
Perms(S) ==
    {p \in [1..Cardinality(S) -> S] : \A i, j \in DOMAIN p : p[i] = p[j] => i = j}

\* Lines 153-154 of tokenize_query: the set `tokens` after the stop-words
\* are taken out.
query_words(query) == Range(str_split(LowerStr(query))) \ STOP_WORDS

\* tokenize_query: the list comprehension of line 155 over the set, which
\* is iterated in the order `order`.
tokenize_query(query, order) == [i \in DOMAIN order |-> stem(order[i])]

(***************************************************************************)
(* Search.boolean_and_search and Search.search.                            *)
(***************************************************************************)
\* The keys of the dict {token: ... for token in tokens}, in insertion order.
RECURSIVE DictKeys(_, _, _)
DictKeys(tokens, i, keys) ==
    IF i > Len(tokens) THEN keys
    ELSE DictKeys(tokens, i + 1,
                  IF tokens[i] \in Range(keys) THEN keys ELSE Append(keys, tokens[i]))

\* Line 201 of search: token -> _get_token_postings(token).
query_postings(search, dir, tokens) ==
    [t \in Range(tokens) |-> get_token_postings(search, dir, t)]

\* Lines 174-176: the docids of one posting list.
DocIds(posting) == {posting[i].docid : i \in DOMAIN posting}

\* list.sort(key=lambda x: x[0]): stable, ascending in the set sizes.
RECURSIVE SortBySize(_, _, _)
SortBySize(token_postings, i, sorted) ==
    IF i > Len(token_postings) THEN sorted
    ELSE LET e == token_postings[i]
             k == Cardinality({j \in DOMAIN sorted : sorted[j].size <= e.size})
         IN SortBySize(token_postings, i + 1,
                       SubSeq(sorted, 1, k) \o <<e>> \o SubSeq(sorted, k + 1, Len(sorted)))

\* Lines 183-185: the intersections, in the order of the sorted list.
RECURSIVE Intersect(_, _, _)
Intersect(token_postings, i, result) ==
    IF i > Len(token_postings) THEN result
    ELSE Intersect(token_postings, i + 1, result \cap token_postings[i].doc_ids)

\* boolean_and_search keeping the docids of any of the posting lists.
RECURSIVE Unite(_, _, _)
Unite(token_postings, i, result) ==
    IF i > Len(token_postings) THEN result
    ELSE Unite(token_postings, i + 1, result \cup token_postings[i].doc_ids)

boolean_or_search(postings, keys) ==
    IF keys = <<>> THEN {}
    ELSE LET token_postings ==
                 [i \in DOMAIN keys |->
                     [size |-> Cardinality(DocIds(postings[keys[i]])),
                      doc_ids |-> DocIds(postings[keys[i]])]]
             sorted == SortBySize(token_postings, 1, <<>>)
         IN Unite(sorted, 2, sorted[1].doc_ids)

\* boolean_and_search(postings), `keys` being the keys of the dict in
\* insertion order.
boolean_and_search(postings, keys) ==
    IF keys = <<>> THEN {}
    ELSE LET token_postings ==
                 [i \in DOMAIN keys |->
                     [size |-> Cardinality(DocIds(postings[keys[i]])),
                      doc_ids |-> DocIds(postings[keys[i]])]]
             sorted == SortBySize(token_postings, 1, <<>>)
         IN Intersect(sorted, 2, sorted[1].doc_ids)

\* math.log on the integers 1..12, in thousandths.
ln_thousandths == <<0, 693, 1099, 1386, 1609, 1792, 1946, 2079, 2197, 2303, 2398, 2485>>

\* The float a tfidf is, in units of 10^-5: (1 + log(tf)) * log(N / (1 + df))
\* in thousandths, times the boost in hundredths.  It is 0 exactly when
\* N = 1 + df, and equal arguments give equal floats.
FloatOf(tfidf) ==
    (((1000 + ln_thousandths[tfidf.log_tf])
      * (ln_thousandths[tfidf.idf_num] - ln_thousandths[tfidf.idf_den])) \div 1000)
    * tfidf.boost

\* Lines 213-225: the binary search for doc_id in one posting list, the
\* tfidf found or 0 when the loop ends without a hit.
RECURSIVE FindTfidf(_, _, _, _)
FindTfidf(postings_list, doc_id, left, right) ==
    IF left > right THEN 0
    ELSE LET mid == left + ((right - left) \div 2)
             current_docid == postings_list[mid + 1].docid
         IN IF current_docid = doc_id THEN FloatOf(postings_list[mid + 1].tfidf)
            ELSE IF current_docid < doc_id
            THEN FindTfidf(postings_list, doc_id, mid + 1, right)
            ELSE FindTfidf(postings_list, doc_id, left, mid - 1)

\* Lines 208-225: the loop over `tokens`, a token that occurs twice in the
\* list adding its tfidf twice.
RECURSIVE ScoreOf(_, _, _, _, _)
ScoreOf(doc_id, tokens, postings, i, score) ==
    IF i > Len(tokens) THEN score
    ELSE ScoreOf(doc_id, tokens, postings, i + 1,
                 score + FindTfidf(postings[tokens[i]], doc_id, 0,
                                   Len(postings[tokens[i]]) - 1))

\* The loop of search without the visited_urls test.
RECURSIVE ResultsLoopNoVisited(_, _, _, _, _, _, _)
ResultsLoopNoVisited(search, tokens, postings, doc_order, i, visited_urls, results) ==
    IF i > Len(doc_order) THEN [raised |-> FALSE, results |-> results]
    ELSE IF doc_order[i] \notin DOMAIN search.doc_id_map
    THEN [raised |-> TRUE, results |-> <<>>]
    ELSE LET doc_id == doc_order[i]
             url == search.doc_id_map[doc_id]
         IN ResultsLoopNoVisited(search, tokens, postings, doc_order, i + 1,
                visited_urls \cup {url},
                Append(results,
                       [url |-> url,
                        score |-> ScoreOf(doc_id, tokens, postings, 1, 0),
                        docid |-> doc_id]))

\* Lines 204-236: the loop over matching_docs, iterated in the order
\* doc_order.  self.doc_id_map[doc_id] raises KeyError on a docid the map
\* lacks.  An entry is {url, score}; docid records the document the entry
\* was built for and is not part of what search returns.
RECURSIVE ResultsLoop(_, _, _, _, _, _, _)
ResultsLoop(search, tokens, postings, doc_order, i, visited_urls, results) ==
    IF i > Len(doc_order) THEN [raised |-> FALSE, results |-> results]
    ELSE IF doc_order[i] \notin DOMAIN search.doc_id_map
    THEN [raised |-> TRUE, results |-> <<>>]
    ELSE LET doc_id == doc_order[i]
             url == search.doc_id_map[doc_id]
         IN IF url \in visited_urls
            THEN ResultsLoop(search, tokens, postings, doc_order, i + 1,
                             visited_urls, results)
            ELSE ResultsLoop(search, tokens, postings, doc_order, i + 1,
                             visited_urls \cup {url},
                             Append(results,
                                    [url |-> url,
                                     score |-> ScoreOf(doc_id, tokens, postings, 1, 0),
                                     docid |-> doc_id]))

\* results.sort(key=lambda x: x['score'], reverse=True): stable, entries of
\* equal score keeping the order they were appended in.
RECURSIVE SortByScore(_, _, _)
SortByScore(results, i, sorted) ==
    IF i > Len(results) THEN sorted
    ELSE LET e == results[i]
             k == Cardinality({j \in DOMAIN sorted : sorted[j].score >= e.score})
         IN SortByScore(results, i + 1,
                        SubSeq(sorted, 1, k) \o <<e>> \o SubSeq(sorted, k + 1, Len(sorted)))

\* Search.search after tokenize_query returned `tokens`, matching_docs being
\* iterated in the order doc_order: whether the call raised, and the list
\* it returned.
Search_search(search, dir, tokens, doc_order) ==
    LET postings == query_postings(search, dir, tokens)
        looped == ResultsLoop(search, tokens, postings, doc_order, 1, {}, <<>>)
    IN [raised |-> looped.raised,
        results |-> SortByScore(looped.results, 1, <<>>)]

(***************************************************************************)
(* The state: the run of main.py (the loop over the corpus files, the      *)
(* final dump and the merge), then of split_index.py, then a Search        *)
(* instance answering shard lookups.                                       *)
(***************************************************************************)
VARIABLES
    pc,                \* the next step of the pipeline
    self,              \* the InvertedIndex instance
    partial_dir,       \* PARTIAL_INDEX_DIR: file number -> lines
    final_index_file,  \* FINAL_INDEX_FILE: lines [token, postings]
    doc_id_file,       \* DOC_ID_FILE: lines [docid, url]
    TOTAL_DOCUMENTS,   \* the global of split_index.py
    shard_writes,      \* the files split_index wrote, in order: [name, lines]
    index_dir,         \* DEV_index: file name stem -> lines
    search,            \* the Search instance
    lookup,            \* the last _get_token_postings call: [token, postings]
    searched,          \* the last Search.search call: the query, the list
                       \* tokenize_query returned, the set boolean_and_search
                       \* returned, and what the call raised or returned
    history            \* the process_document calls, in order: the file, the
                       \* outcome, partial_index_file_count at the call
                       \* (batch) and DOC_ID_COUNT before and after it

vars ==
    <<pc, self, partial_dir, final_index_file, doc_id_file, TOTAL_DOCUMENTS,
      shard_writes, index_dir, search, lookup, searched, history>>

NoSearch == [doc_id_map |-> EmptyDict, total_docs |-> 0, index_files |-> {}]
NoLookup == [called |-> FALSE, token |-> <<>>, postings |-> <<>>]
NoSearched ==
    [called |-> FALSE, query |-> <<>>, tokens |-> <<>>, matching_docs |-> {},
     raised |-> FALSE, results |-> <<>>]

\* The tokens looked up: those of the corpus, and two of no document.
s_c == <<99>>
s_2 == <<50>>
QueryTokens == Vocabulary \cup {s_c, s_2}

Init ==
    /\ pc = "process"
    /\ self = InvertedIndex
    /\ partial_dir = EmptyDict
    /\ final_index_file = <<>>
    /\ doc_id_file = <<>>
    /\ TOTAL_DOCUMENTS = 0
    /\ shard_writes = <<>>
    /\ index_dir = EmptyDict
    /\ search = NoSearch
    /\ lookup = NoLookup
    /\ searched = NoSearched
    /\ history = <<>>

indexer_vars == <<self, partial_dir, history>>
output_vars == <<final_index_file, doc_id_file>>
split_vars == <<TOTAL_DOCUMENTS, shard_writes, index_dir>>
search_vars == <<search, lookup, searched>>

\* main.py line 435: process_document(file_path) on the next corpus file.
ProcessDocument(file) ==
    /\ pc = "process"
    /\ Len(history) < MaxDocs
    /\ LET done == process_document(self, file)
       IN /\ self' = done.self
          /\ history' = Append(history,
                [file |-> file, outcome |-> done.outcome,
                 batch |-> self.partial_index_file_count,
                 before |-> self.DOC_ID_COUNT,
                 after |-> done.self.DOC_ID_COUNT])
    /\ pc' = "check"
    /\ UNCHANGED <<partial_dir, output_vars, split_vars, search_vars>>

\* check_and_dump.  size_in_bytes is pympler's estimate of the partial index,
\* which is not computed here: it lies on either side of the threshold.
CheckAndDump(size_in_bytes) ==
    /\ pc = "check"
    /\ IF size_in_bytes > THRESHOLD_SIZE
       THEN LET written == dump_partial_index(self)
            IN /\ self' = written.self
               /\ partial_dir' = WriteFile(partial_dir, written)
       ELSE UNCHANGED <<self, partial_dir>>
    /\ pc' = "process"
    /\ UNCHANGED <<history, output_vars, split_vars, search_vars>>

\* main.py lines 439-440, after the loop: the dump of a non-empty rest.
FinalDump ==
    /\ pc = "process"
    /\ IF DOMAIN self.partial_index /= {}
       THEN LET written == dump_partial_index(self)
            IN /\ self' = written.self
               /\ partial_dir' = WriteFile(partial_dir, written)
       ELSE UNCHANGED <<self, partial_dir>>
    /\ pc' = "merge"
    /\ UNCHANGED <<history, output_vars, split_vars, search_vars>>

\* main.py line 442: merge_partial_indexes(), which ends in save_doc_id_mapping.
MergePartialIndexes ==
    /\ pc = "merge"
    /\ LET merged == merge_partial_indexes(self, partial_dir)
       IN /\ final_index_file' = merged.final_index
          /\ doc_id_file' = merged.doc_id_file
    /\ pc' = "count"
    /\ UNCHANGED <<indexer_vars, split_vars, search_vars>>

\* split_index.py line 113.
InitializeTotalDocuments ==
    /\ pc = "count"
    /\ TOTAL_DOCUMENTS' = initialize_total_documents(doc_id_file)
    /\ pc' = "split"
    /\ UNCHANGED <<indexer_vars, output_vars, shard_writes, index_dir, search_vars>>

\* split_index.py lines 114-119.
SplitIndex ==
    /\ pc = "split"
    /\ shard_writes' = split_index(final_index_file, TOTAL_DOCUMENTS)
    /\ index_dir' = WriteAll(index_dir, shard_writes', 1)
    /\ pc' = "load"
    /\ UNCHANGED <<indexer_vars, output_vars, TOTAL_DOCUMENTS, search_vars>>

\* Search(index_dir, doc_id_file)
SearchInit ==
    /\ pc = "load"
    /\ search' = SearchInstance(index_dir, doc_id_file)
    /\ pc' = "search"
    /\ UNCHANGED <<indexer_vars, output_vars, split_vars, lookup, searched>>

\* _get_token_postings(token)
GetTokenPostings(token) ==
    /\ pc = "search"
    /\ lookup' = [called |-> TRUE, token |-> token,
                  postings |-> get_token_postings(search, index_dir, token)]
    /\ UNCHANGED <<pc, indexer_vars, output_vars, split_vars, search, searched>>

Next ==
    \/ \E file \in Corpus : ProcessDocument(file)
    \/ \E size_in_bytes \in {THRESHOLD_SIZE, THRESHOLD_SIZE + 1} :
          CheckAndDump(size_in_bytes)
    \/ FinalDump
    \/ MergePartialIndexes
    \/ InitializeTotalDocuments
    \/ SplitIndex
    \/ SearchInit
    \/ \E token \in QueryTokens : GetTokenPostings(token)

Spec == Init /\ [][Next]_vars

(***************************************************************************)
(* The query evaluator on the index of a small corpus: the same pipeline   *)
(* over documents of two or three tokens, whose partial index stays below  *)
(* THRESHOLD_SIZE, then Search.search on query strings.  A line of a shard *)
(* may be damaged on disk between the split and a query.                   *)
(***************************************************************************)
\* Length of the query strings that are enumerated in full.
MaxQueryLen == 2

f_b_ab == File(Url("u2", ""), Html(<<s_b, s_ab>>, {}, {}, {}, {s_b, s_ab}))
f_b == File(Url("u5", ""), Html(<<s_b>>, {}, {}, {}, {s_b}))
QueryCorpus == {f_short, f_b_ab, f_b}

\* The characters of the queries: a, b, s, 1, the comma and the space.
QueryAlphabet == {97, 98, 115, 49, 44, 32}
q_ab_abs == <<97, 98, 32, 97, 98, 115>>
q_b_ab == <<98, 32, 97, 98>>
q_b_bb == <<98, 32, 98, 98>>
q_a_as == <<97, 32, 97, 115>>
q_AB_comma == <<65, 66, 44>>
Queries ==
    UNION {[1..n -> QueryAlphabet] : n \in 0..MaxQueryLen}
    \cup {s_abs, q_ab_abs, q_b_ab, q_b_bb, q_a_as, q_AB_comma}

\* A line of a shard file becomes unparseable on disk (a torn write, a bad
\* sector); one fault is considered.
CorruptShard(name, i) ==
    /\ pc = "search"
    /\ name \in DOMAIN index_dir
    /\ i \in DOMAIN index_dir[name]
    /\ \A n \in DOMAIN index_dir : \A j \in DOMAIN index_dir[n] :
          ~IsCorrupt(index_dir[n][j])
    /\ index_dir' = [index_dir EXCEPT ![name][i] = CorruptLine]
    /\ UNCHANGED <<pc, indexer_vars, output_vars, TOTAL_DOCUMENTS, shard_writes,
                   search_vars>>

\* search(query): tokenize_query, the lookups, boolean_and_search and the
\* ranking.  The set of query words and the set of matching docids are each
\* iterated in an order the language leaves open.
SearchQuery(query) ==
    /\ pc = "search"
    /\ \E order \in Perms(query_words(query)) :
          LET tokens == tokenize_query(query, order)
              postings == query_postings(search, index_dir, tokens)
              matching_docs == boolean_and_search(postings, DictKeys(tokens, 1, <<>>))
          IN \E doc_order \in Perms(matching_docs) :
                LET returned == Search_search(search, index_dir, tokens, doc_order)
                IN searched' = [called |-> TRUE, query |-> query, tokens |-> tokens,
                                matching_docs |-> matching_docs,
                                raised |-> returned.raised,
                                results |-> returned.results]
    /\ pc' = "respond"
    /\ UNCHANGED <<indexer_vars, output_vars, split_vars, search, lookup>>

\* app.py lines 22-24: the response is sent and the next request awaited.
Respond ==
    /\ pc = "respond"
    /\ searched' = NoSearched
    /\ pc' = "search"
    /\ UNCHANGED <<indexer_vars, output_vars, split_vars, search, lookup>>

NextQuery ==
    \/ \E file \in QueryCorpus : ProcessDocument(file)
    \/ CheckAndDump(THRESHOLD_SIZE)
    \/ FinalDump
    \/ MergePartialIndexes
    \/ InitializeTotalDocuments
    \/ SplitIndex
    \/ SearchInit
    \/ \E name \in DOMAIN index_dir : \E i \in DOMAIN index_dir[name] :
          CorruptShard(name, i)
    \/ \E query \in Queries : SearchQuery(query)
    \/ Respond

QuerySpec == Init /\ [][NextQuery]_vars

(***************************************************************************)
(* Properties.                                                             *)
(***************************************************************************)
\* merge_partial_indexes has returned: FINAL_INDEX_FILE and DOC_ID_FILE are
\* written, and no later step writes them.
Merged == pc = "count"
\* split_index has returned: the shards are written, and no later step writes
\* them.
Sharded == pc = "load"
\* The Search instance is constructed and has answered no lookup yet.
Loaded == pc = "search" /\ ~lookup.called

Indexed == {i \in DOMAIN history : history[i].outcome = "indexed"}

\* No (token, docid) pair occurs in two partial files, so that the merge never
\* adds the tf nor unites the fields of two postings.
DocidInOnePartialFile ==
    \A n, k \in DOMAIN partial_dir :
        \A i \in DOMAIN partial_dir[n], j \in DOMAIN partial_dir[k] :
            (n /= k /\ partial_dir[n][i].token = partial_dir[k][j].token) =>
                {p.docid : p \in Range(partial_dir[n][i].postings)}
                \cap {p.docid : p \in Range(partial_dir[k][j].postings)} = {}

\* (docid, tf, fields) of each posting, without tfidf.
Strip(postings) ==
    [i \in DOMAIN postings |->
        [docid |-> postings[i].docid, tf |-> postings[i].tf,
         fields |-> postings[i].fields]]

StripLines(lines) ==
    [i \in DOMAIN lines |->
        [token |-> lines[i].token, postings |-> Strip(lines[i].postings)]]

AscendingTokens(lines) ==
    \A i \in 1..(Len(lines) - 1) : StrLess(lines[i].token, lines[i + 1].token)

AscendingDocids(postings) ==
    \A i \in 1..(Len(postings) - 1) : postings[i].docid < postings[i + 1].docid

\* C1: the lines of the final index are strictly ascending by token and every
\* postings array is strictly ascending by docid, whatever the flushes were.
C1_FinalIndexSorted ==
    Merged =>
        /\ AscendingTokens(final_index_file)
        /\ \A i \in DOMAIN final_index_file :
              AscendingDocids(final_index_file[i].postings)

\* C1 witness: three partial files were merged into several lines, one of them
\* with postings of several documents.
C1_Witness ==
    /\ Merged
    /\ self.partial_index_file_count >= 3
    /\ Len(final_index_file) >= 2
    /\ \E i \in DOMAIN final_index_file : Len(final_index_file[i].postings) >= 3

RECURSIVE SumTf(_, _)
SumTf(postings, i) ==
    IF i > Len(postings) THEN 0 ELSE postings[i].tf + SumTf(postings, i + 1)

\* The sum of tf over every line of the final index whose token is t.
RECURSIVE TotalTf(_, _, _)
TotalTf(lines, t, i) ==
    IF i > Len(lines) THEN 0
    ELSE (IF lines[i].token = t THEN SumTf(lines[i].postings, 1) ELSE 0)
         + TotalTf(lines, t, i + 1)

\* The occurrences of t in the token streams of the indexed documents.
RECURSIVE Occurrences(_, _)
Occurrences(t, i) ==
    IF i > Len(history) THEN 0
    ELSE (IF history[i].outcome = "indexed"
          THEN Cardinality({k \in DOMAIN history[i].file.content.text :
                              history[i].file.content.text[k] = t})
          ELSE 0)
         + Occurrences(t, i + 1)

\* C2: for every term, the sum of tf over its postings in the final index is
\* the number of its occurrences in the accepted documents; the final index
\* holds no other term.
C2_TfConserved ==
    Merged =>
        /\ \A t \in Vocabulary : TotalTf(final_index_file, t, 1) = Occurrences(t, 1)
        /\ \A i \in DOMAIN final_index_file : final_index_file[i].token \in Vocabulary

\* C2 witness: a term of several accepted documents that were flushed to
\* different partial files, with a document skipped in between.
C2_Witness ==
    /\ Merged
    /\ self.partial_index_file_count >= 2
    /\ Cardinality(Indexed) >= 2
    /\ \E i \in DOMAIN history : history[i].outcome = "duplicate"
    /\ \E i, j \in Indexed : history[i].batch /= history[j].batch
    /\ TotalTf(final_index_file, s_a, 1) >= 10

(***************************************************************************)
(* The build of the same corpus files in the same order with a threshold   *)
(* that never triggers a flush before the end: process_document on each    *)
(* file, then the final dump and the merge of main.py.                     *)
(***************************************************************************)
RECURSIVE UnflushedLoop(_, _, _)
UnflushedLoop(inst, outcomes, i) ==
    IF i > Len(history) THEN [self |-> inst, outcomes |-> outcomes]
    ELSE LET done == process_document(inst, history[i].file)
         IN UnflushedLoop(done.self, Append(outcomes, done.outcome), i + 1)

Unflushed ==
    LET looped == UnflushedLoop(InvertedIndex, <<>>, 1)
        written == dump_partial_index(looped.self)
        dumped == DOMAIN looped.self.partial_index /= {}
        merged == merge_partial_indexes(
                      IF dumped THEN written.self ELSE looped.self,
                      IF dumped THEN WriteFile(EmptyDict, written) ELSE EmptyDict)
    IN [final_index |-> merged.final_index, doc_id_file |-> merged.doc_id_file,
        outcomes |-> looped.outcomes]

\* The build skipped no document as a duplicate.
NoDuplicate(build) ==
    \A i \in DOMAIN build.outcomes : build.outcomes[i] /= "duplicate"

\* The run wrote the final index and the doc-id file that `build` wrote.
SameOutput(build) ==
    /\ final_index_file = build.final_index
    /\ doc_id_file = build.doc_id_file

SameOutputUnlessDuplicates(build) == NoDuplicate(build) => SameOutput(build)

\* C3 as stated: the flushing build and the never-flushing build of the same
\* corpus write the same final index and the same doc-id map (stated for the
\* corpora none of whose files raises in process_document).
C3_FlushedEqualsUnflushed ==
    (Merged /\ \A i \in DOMAIN history : history[i].outcome /= "error") =>
        SameOutput(Unflushed)

\* C3 amended: they write the same final index and the same doc-id map when
\* the never-flushing build skips no document as a duplicate.
C3_FlushedEqualsUnflushedWithoutDuplicates ==
    Merged => SameOutputUnlessDuplicates(Unflushed)

\* C3 witness: three partial files, three documents indexed, none a duplicate
\* in the never-flushing build.
C3_Witness ==
    /\ Merged
    /\ self.partial_index_file_count >= 3
    /\ Cardinality(Indexed) >= 3
    /\ NoDuplicate(Unflushed)

\* C4: the docids are 1..k after k documents were accepted, the i-th accepted
\* document has docid i, and the doc-id file holds docid i on its line i.
C4_DocidsDense ==
    /\ self.DOC_ID_COUNT = Cardinality(Indexed) + 1
    /\ DOMAIN self.DOC_ID = 1..Cardinality(Indexed)
    /\ \A i \in DOMAIN history :
          LET nth == Cardinality({j \in Indexed : j <= i})
          IN IF i \in Indexed
             THEN /\ history[i].before = nth
                  /\ history[i].after = nth + 1
                  /\ self.DOC_ID[nth] = urldefrag(history[i].file.url)
             ELSE history[i].before = nth + 1 /\ history[i].after = nth + 1
    /\ Merged =>
          /\ Len(doc_id_file) = Cardinality(Indexed)
          /\ \A i \in DOMAIN doc_id_file :
                /\ doc_id_file[i].docid = i
                /\ doc_id_file[i].url = self.DOC_ID[i]

\* C4 witness: three documents accepted, one skipped before the last of them,
\* and the doc-id file written.
C4_Witness ==
    /\ Merged
    /\ Len(doc_id_file) >= 2
    /\ \E i \in DOMAIN history, j \in Indexed : i < j /\ i \notin Indexed

PostingsOfDict(dict) == UNION {Range(dict[t]) : t \in DOMAIN dict}
PostingsOfLines(lines) == UNION {Range(lines[i].postings) : i \in DOMAIN lines}

\* C5: every docid of a posting, in memory, in a partial file, in the final
\* index or in a shard, lies in 1..N and has a URL in the doc-id map, N being
\* the number of lines of the doc-id file.
C5_DocidsInRange ==
    /\ \A p \in PostingsOfDict(self.partial_index) : p.docid \in DOMAIN self.DOC_ID
    /\ \A n \in DOMAIN partial_dir :
          \A p \in PostingsOfLines(partial_dir[n]) :
              p.docid >= 1 /\ p.docid < self.DOC_ID_COUNT /\ p.docid \in DOMAIN self.DOC_ID
    /\ Merged =>
          \A p \in PostingsOfLines(final_index_file) :
              /\ 1 <= p.docid /\ p.docid <= Len(doc_id_file)
              /\ \E i \in DOMAIN doc_id_file : doc_id_file[i].docid = p.docid
    /\ Sharded =>
          /\ TOTAL_DOCUMENTS = Len(doc_id_file)
          /\ \A n \in DOMAIN index_dir :
                \A p \in PostingsOfLines(index_dir[n]) :
                    1 <= p.docid /\ p.docid <= TOTAL_DOCUMENTS
    /\ Loaded =>
          /\ search.total_docs = Len(doc_id_file)
          /\ \A n \in DOMAIN index_dir :
                \A p \in PostingsOfLines(index_dir[n]) :
                    p.docid \in DOMAIN search.doc_id_map
    /\ lookup.called =>
          \A p \in Range(lookup.postings) : p.docid \in DOMAIN search.doc_id_map

\* C5 witness: a lookup returned postings of three documents.
C5_Witness ==
    /\ pc = "search"
    /\ lookup.called
    /\ \E p \in Range(lookup.postings) : p.docid = 3
    /\ self.partial_index_file_count >= 2

\* The files that process_document tokenizes and hands to url_to_docid
\* without an exception.
Processable(file) ==
    /\ file.readable /\ file.url.page /= "" /\ file.url.wellformed
    /\ ~file.content.empty /\ file.content.parses

\* C6: of three processable documents with the same token stream of at least
\* 10 tokens, processed one after the other with no flush in between, the
\* first is indexed and the other two are skipped: one docid is assigned.
C6_ThreeIdenticalOneIndexed ==
    \A i \in 1..(Len(history) - 2) :
        (/\ \A k \in {i, i + 1, i + 2} :
                /\ Processable(history[k].file)
                /\ history[k].file.content.text = history[i].file.content.text
                /\ history[k].batch = history[i].batch
         /\ Len(history[i].file.content.text) >= min_token_count
         /\ history[i].outcome = "indexed")
        => /\ history[i + 1].outcome = "duplicate"
           /\ history[i + 2].outcome = "duplicate"
           /\ history[i + 2].after = history[i].before + 1

\* The postings process_document appends for the document of `file` under
\* docid: one per distinct term of its token stream.
AppendedFor(before, after, file, docid) ==
    LET terms == Range(file.content.text)
    IN /\ DOMAIN after = DOMAIN before \cup terms
       /\ \A t \in DOMAIN after :
             LET old == IF t \in DOMAIN before THEN before[t] ELSE <<>>
             IN IF t \in terms
                THEN /\ Len(after[t]) = Len(old) + 1
                     /\ SubSeq(after[t], 1, Len(old)) = old
                     /\ after[t][Len(after[t])].docid = docid
                ELSE after[t] = old

\* C7: a process_document call either leaves DOC_ID_COUNT, the doc-id map and
\* the partial index unchanged (the file is unreadable or empty, processing
\* raised, or the document is a duplicate), or assigns one docid and appends
\* one posting per distinct term of the document.
C7_AllOrNothing ==
    [][(pc = "process" /\ pc' = "check") =>
          LET call == history'[Len(history')]
          IN /\ ~Processable(call.file) => call.outcome /= "indexed"
             /\ IF call.outcome \in {"no_content", "error", "duplicate"}
                THEN /\ self'.DOC_ID_COUNT = self.DOC_ID_COUNT
                     /\ self'.DOC_ID = self.DOC_ID
                     /\ self'.partial_index = self.partial_index
                ELSE /\ call.outcome = "indexed"
                     /\ self'.DOC_ID_COUNT = self.DOC_ID_COUNT + 1
                     /\ DOMAIN self'.DOC_ID = DOMAIN self.DOC_ID \cup {self.DOC_ID_COUNT}
                     /\ \A d \in DOMAIN self.DOC_ID : self'.DOC_ID[d] = self.DOC_ID[d]
                     /\ AppendedFor(self.partial_index, self'.partial_index,
                                    call.file, self.DOC_ID_COUNT)]_vars

\* C7 witness: a document was indexed, then one was skipped as a duplicate and
\* one for an exception.
C7_Witness ==
    /\ Len(history) = 3
    /\ history[1].outcome = "indexed"
    /\ history[2].outcome = "duplicate"
    /\ history[3].outcome = "error"
    /\ history[3].file = f_bad_url

\* The shard names in alphabetical order, `other` last.
ShardOrder ==
    SortStrings(DOMAIN index_dir \ {s_other})
    \o (IF s_other \in DOMAIN index_dir THEN <<s_other>> ELSE <<>>)

RECURSIVE ConcatShards(_, _)
ConcatShards(order, i) ==
    IF i > Len(order) THEN <<>>
    ELSE index_dir[order[i]] \o ConcatShards(order, i + 1)

\* C8: split_index writes every term of the final index to exactly one shard,
\* writes each shard once, keeps every shard in ascending term order, and the
\* shards concatenated in alphabetical order reproduce the final index.
C8_ShardsPartitionFinalIndex ==
    Sharded =>
        /\ \A i \in DOMAIN final_index_file :
              Cardinality({w \in DOMAIN shard_writes :
                  \E k \in DOMAIN shard_writes[w].lines :
                      shard_writes[w].lines[k].token = final_index_file[i].token}) = 1
        /\ \A v, w \in DOMAIN shard_writes :
              shard_writes[v].name = shard_writes[w].name => v = w
        /\ \A n \in DOMAIN index_dir : AscendingTokens(index_dir[n])
        /\ StripLines(ConcatShards(ShardOrder, 1)) = final_index_file

\* C8 witness: three shards were written, the first for the digit-initial
\* terms, one of them with two terms.
C8_Witness ==
    /\ Sharded
    /\ Len(shard_writes) >= 3
    /\ shard_writes[1].name = s_1
    /\ \E w \in DOMAIN shard_writes : Len(shard_writes[w].lines) >= 2

\* The bucket of the specification: the first character when it is a letter,
\* `other` when it is not.
LetterOrOther(token) ==
    IF IsAlpha(Lower(token[1])) THEN <<Lower(token[1])>> ELSE s_other

\* C9: the shard split_index writes a term to is named by the term's first
\* character when that is a letter and `other` when it is not, and it is the
\* file the query evaluator opens for the term.
C9_BucketIsLetterOrOther ==
    Loaded =>
        \A w \in DOMAIN shard_writes :
            \A k \in DOMAIN shard_writes[w].lines :
                LET token == shard_writes[w].lines[k].token
                IN /\ shard_writes[w].name = LetterOrOther(token)
                   /\ get_index_file_for_token(search, token) =
                          [none |-> FALSE, name |-> shard_writes[w].name]

\* C10: a lookup returns the posting list of the token when the token is a
\* term of the index, and the empty list when it is not.
C10_LookupFindsTermIffPresent ==
    lookup.called =>
        IF \E i \in DOMAIN final_index_file : final_index_file[i].token = lookup.token
        THEN \E i \in DOMAIN final_index_file :
                /\ final_index_file[i].token = lookup.token
                /\ Strip(lookup.postings) = final_index_file[i].postings
                /\ lookup.postings /= <<>>
        ELSE lookup.postings = <<>>


(***************************************************************************)
(* Properties of the query evaluator.                                      *)
(***************************************************************************)
\* Search.search has returned and the response is not sent yet.
Searched == pc = "respond"

\* The posting list _get_token_postings returns for the token.
PostingsFor(token) == get_token_postings(search, index_dir, token)

\* The docids that occur in the posting list of every one of the tokens.
InEveryPostingList(tokens) ==
    {d \in UNION {DocIds(PostingsFor(t)) : t \in Range(tokens)} :
        \A t \in Range(tokens) : d \in DocIds(PostingsFor(t))}

\* C11: boolean_and_search returns exactly the docids that occur in the
\* posting list of every query token, whatever the order the token list is
\* in; it returns the empty set when some token has no postings and when
\* no token is left after the stop-words are removed.
C11_AndIsIntersection ==
    Searched =>
        /\ searched.matching_docs = InEveryPostingList(searched.tokens)
        /\ (\E t \in Range(searched.tokens) : PostingsFor(t) = <<>>)
              => searched.matching_docs = {}
        /\ searched.tokens = <<>> => searched.matching_docs = {}

\* A query of two tokens, the first with the longer posting list, answered
\* by a proper non-empty part of that list.
C11_Witness ==
    /\ Searched
    /\ Len(searched.tokens) = 2
    /\ Cardinality(DocIds(PostingsFor(searched.tokens[1])))
          > Cardinality(DocIds(PostingsFor(searched.tokens[2])))
    /\ searched.matching_docs /= {}
    /\ searched.matching_docs /= DocIds(PostingsFor(searched.tokens[1]))

\* The tfidf the term's posting list holds for the document, 0 if none.
TfidfFor(term, doc_id) ==
    LET posting == PostingsFor(term)
        at == {i \in DOMAIN posting : posting[i].docid = doc_id}
    IN IF at = {} THEN 0 ELSE FloatOf(posting[CHOOSE i \in at : TRUE].tfidf)

RECURSIVE SumOverTerms(_, _)
SumOverTerms(terms, doc_id) ==
    IF terms = {} THEN 0
    ELSE LET t == CHOOSE x \in terms : TRUE
         IN TfidfFor(t, doc_id) + SumOverTerms(terms \ {t}, doc_id)

\* C12: the score of every returned document is the sum, over the distinct
\* terms of the query after stemming, of the term's tfidf for the document,
\* each term counted once.
C12_ScoreCountsEachTermOnce ==
    Searched =>
        \A i \in DOMAIN searched.results :
            searched.results[i].score =
                SumOverTerms(Range(searched.tokens), searched.results[i].docid)

\* C13: the list search returns is in descending order of score, and
\* entries of equal score are in ascending order of docid, whatever the
\* order the set of matching docids is iterated in.
C13_RankedByScoreThenDocid ==
    Searched =>
        \A i, j \in DOMAIN searched.results :
            i < j =>
                \/ searched.results[i].score > searched.results[j].score
                \/ /\ searched.results[i].score = searched.results[j].score
                   /\ searched.results[i].docid < searched.results[j].docid

\* The binary search of _get_token_postings for the token reads a line
\* that json.loads rejects.
MeetsCorruptLine(token) ==
    /\ token /= <<>>
    /\ LET index_file == get_index_file_for_token(search, token)
       IN /\ ~index_file.none
          /\ BinarySearch(index_dir[index_file.name], token, 0,
                          Len(index_dir[index_file.name]) - 1).raised

\* C14: a query whose shard binary search meets a corrupt line ends with an
\* error raised to the caller of search, not with a result list.
C14_CorruptLineAbortsQuery ==
    Searched =>
        ((\E t \in Range(searched.tokens) : MeetsCorruptLine(t)) => searched.raised)

\* C15: every posting split_index writes has tfidf >= 0.
C15_TfidfNonNegative ==
    Sharded =>
        \A w \in DOMAIN shard_writes :
            \A l \in DOMAIN shard_writes[w].lines :
                \A k \in DOMAIN shard_writes[w].lines[l].postings :
                    FloatOf(shard_writes[w].lines[l].postings[k].tfidf) >= 0

\* C16: the list search returns holds no two entries with the same URL,
\* also when the doc-id map gives several matching docids one URL.
C16_NoUrlTwice ==
    Searched =>
        \A i, j \in DOMAIN searched.results :
            searched.results[i].url = searched.results[j].url => i = j

\* Two matching docids have one URL, and the list holds fewer entries than
\* there are matching docids.
C16_Witness ==
    /\ Searched
    /\ \E d1, d2 \in searched.matching_docs :
          d1 /= d2 /\ search.doc_id_map[d1] = search.doc_id_map[d2]
    /\ searched.results /= <<>>
    /\ Len(searched.results) < Cardinality(searched.matching_docs)

\* C18: the set of terms tokenize_query produces for a query string is the
\* set of terms tokenize produces for it, less the stop-words.
C18_QueryTermsAreIndexTerms ==
    Searched =>
        Range(searched.tokens) = Range(tokenize(searched.query)) \ STOP_WORDS

(***************************************************************************)
(* Properties of the near-duplicate filter.                                *)
(***************************************************************************)
\* process_document reaches the call of is_duplicate on the file.
ReachesIsDuplicate(file) ==
    /\ file.readable
    /\ file.url.page /= ""
    /\ ~file.content.empty
    /\ file.content.parses

\* |A \cap B| / |A \cup B| >= 17/20, the quotient of an empty union being 0.
JaccardAtLeast85(A, B) ==
    /\ A \cup B /= {}
    /\ 20 * Cardinality(A \cap B) >= 17 * Cardinality(A \cup B)

\* C17: on fewer than 10 tokens is_duplicate returns false and leaves the
\* fingerprint set as it is; otherwise it returns true, the set unchanged,
\* iff a fingerprint of the set has Jaccard similarity >= 0.85 with the new
\* one, and on false the new fingerprint is added; a dump of the partial
\* index leaves the fingerprint set and the partial index empty.
C17_IsDuplicate ==
    [][/\ (pc = "process" /\ pc' = "check"
              /\ ReachesIsDuplicate(history'[Len(history')].file)) =>
            LET call == history'[Len(history')]
                tokens == call.file.content.text
                new == {h \in {custom_hash(JoinTrigram(tokens, i)) :
                                  i \in 1..(Len(tokens) - 2)} : h % 4 = 0}
                result == call.outcome = "duplicate"
                similar == \E f \in self.near_duplicate : JaccardAtLeast85(f, new)
            IN IF Len(tokens) < 10
               THEN ~result /\ self'.near_duplicate = self.near_duplicate
               ELSE /\ result <=> similar
                    /\ result => self'.near_duplicate = self.near_duplicate
                    /\ ~result =>
                          self'.near_duplicate = self.near_duplicate \cup {new}
       /\ partial_dir' /= partial_dir =>
            self'.near_duplicate = {} /\ self'.partial_index = EmptyDict]_vars

\* A document of ten tokens has just been found a duplicate of a recorded
\* non-empty fingerprint, in a batch that follows a dump.
C17_Witness ==
    /\ pc = "check"
    /\ history[Len(history)].outcome = "duplicate"
    /\ Len(history[Len(history)].file.content.text) >= 10
    /\ Fingerprint(history[Len(history)].file.content.text) \in self.near_duplicate
    /\ Fingerprint(history[Len(history)].file.content.text) /= {}
    /\ self.partial_index_file_count > 0

=============================================================================
